---------------------------- MODULE Spec2Model ----------------------------
(***************************************************************************)
(* A model of the DeFi data pipeline: retry_web3_call (utils/helpers.py)   *)
(* and DeFiDataPipeline.fetch_swap_events / save_trades_to_db /            *)
(* update_wallet_stats / run_full_pipeline ("On-Chain DeFi Data            *)
(* Pipeline.py").                                                          *)
(*                                                                         *)
(* Four specifications share the module:                                   *)
(*   SpecRetry   retry_web3_call, one loop iteration per step;             *)
(*   SpecDecode  the decoding of one raw log into a trade record;          *)
(*   SpecScan    fetch_swap_events over the log lists an endpoint returns; *)
(*   Spec        the store and the orchestrator.                           *)
(***************************************************************************)
EXTENDS Integers, Sequences, FiniteSets, TLC

VARIABLES
    \* ---- retry_web3_call ----
    max_retries,    \* parameter max_retries
    delay,          \* parameter delay (base delay)
    func_fails,     \* func: the number of its first invocations that raise
    func_error,     \* func: the kind of exception it raises
    attempt,        \* the loop variable of "for attempt in range(max_retries)"
    calls,          \* how many times func() has been invoked
    sleeps,         \* the wait_time of every time.sleep(), in order
    status,         \* "idle" | "running" | "returned" | "raised"
    result,         \* the value returned or the exception raised
    \* ---- decoding one log (fetch_swap_events, lines 195-212) ----
    event,          \* the raw log being decoded
    swap_data,      \* the outcome: pending, the record built, or the error
    \* ---- the endpoint ----
    chain,          \* the swap logs on the chain, in block and log order
    faults,         \* the RPC calls <<operation, argument>> that fail
    latest_block,   \* w3.eth.block_number
    \* ---- fetch_swap_events ----
    scan_args,      \* the arguments of the last call
    events,         \* what the log query of the last call returned
    rpc_log,        \* the RPC calls of the last call: first the log query's,
                    \* then one sequence per log processed
    swap_events,    \* the list the last call returned
    \* ---- the SQLite database ----
    trades,         \* the rows of table trades, in rowid order
    wallets,        \* table wallets: address -> row
    db_faults,      \* the SQLite calls <<operation, argument>> that raise
    \* ---- history ----
    row_origin,     \* per row of trades: the <<transaction, log index>> of
                    \* the log it records (the table has no such column)
    last_op,        \* the last operation run on the pipeline object
    run             \* how that operation went: the arguments it was given,
                    \* the steps it entered, what it printed, how it ended

retry_vars == <<max_retries, delay, func_fails, func_error, attempt, calls,
                sleeps, status, result>>

decode_vars == <<event, swap_data>>

endpoint_vars == <<chain, faults, latest_block>>

scan_vars == <<scan_args, events, rpc_log, swap_events>>

store_vars == <<trades, wallets, db_faults, row_origin, last_op, run>>

vars == <<retry_vars, decode_vars, endpoint_vars, scan_vars, store_vars>>

-----------------------------------------------------------------------------
(* Bounds of the model.                                                    *)

MaxRetriesBound == 4
MaxDelay == 2
MaxFailures == 4
MaxLogs == 3
MaxFaults == 1
MaxRows == 3
MaxBatch == 2

-----------------------------------------------------------------------------
(* Small helpers.                                                          *)

RECURSIVE Pow2(_)
Pow2(n) == IF n <= 0 THEN 1 ELSE 2 * Pow2(n - 1)

Min2(a, b) == IF a <= b THEN a ELSE b

-----------------------------------------------------------------------------
(* utils/helpers.py: retry_web3_call                                       *)

\* The exceptions func may raise.  "timeout" is transient; "malformed" (a
\* malformed response) and "not_found" are not.
ErrorKinds == {"timeout", "malformed", "not_found"}
NonTransient == {"malformed", "not_found"}

DefaultMaxRetries == 3

\* func()'s successful return value.
FuncValue == "value"
\* What a function returns when it falls off its end.
None == "None"

\* A linear backoff: the wait a slip in the exponent would give.
RetryWaitLinear(d, a) == d * (a + 1)

\* wait_time = delay * (2 ** attempt)
RetryWait(d, a) == d * Pow2(a)

\* A handler that lets the non-transient exceptions through.
CaughtTransientOnly(kind) == kind \notin NonTransient

\* "except Exception as e": every exception func raises is caught, whatever
\* its kind.
Caught(kind) == TRUE

\* The call retry_web3_call(func, mr, d).  range(mr) is empty when mr <= 0:
\* the loop body never runs and the function returns None without calling func.
RetryWeb3Call(mr, d, n, kind) ==
    /\ status = "idle"
    /\ max_retries' = mr
    /\ delay' = d
    /\ func_fails' = n
    /\ func_error' = kind
    /\ attempt' = 0
    /\ calls' = 0
    /\ sleeps' = <<>>
    /\ IF mr <= 0
       THEN status' = "returned" /\ result' = None
       ELSE status' = "running" /\ result' = None
    /\ UNCHANGED <<decode_vars, endpoint_vars, scan_vars, store_vars>>

\* One iteration of the for loop: try func(); on an exception either raise
\* (last attempt) or sleep and go on.
RetryAttempt ==
    /\ status = "running"
    /\ calls' = calls + 1
    /\ IF calls >= func_fails
       THEN \* return func()
            /\ status' = "returned"
            /\ result' = FuncValue
            /\ UNCHANGED <<attempt, sleeps>>
       ELSE IF ~Caught(func_error) \/ attempt = max_retries - 1
            THEN \* raise e
                 /\ status' = "raised"
                 /\ result' = func_error
                 /\ UNCHANGED <<attempt, sleeps>>
            ELSE \* time.sleep(wait_time); next attempt
                 /\ sleeps' = Append(sleeps, RetryWait(delay, attempt))
                 /\ attempt' = attempt + 1
                 /\ UNCHANGED <<status, result>>
    /\ UNCHANGED <<max_retries, delay, func_fails, func_error>>
    /\ UNCHANGED <<decode_vars, endpoint_vars, scan_vars, store_vars>>

\* The caller takes the outcome; the helper can be called again.
RetryDone ==
    /\ status \in {"returned", "raised"}
    /\ status' = "idle"
    /\ UNCHANGED <<max_retries, delay, func_fails, func_error, attempt, calls,
                   sleeps, result>>
    /\ UNCHANGED <<decode_vars, endpoint_vars, scan_vars, store_vars>>


-----------------------------------------------------------------------------
(* Strings and byte strings.                                               *)
(*                                                                         *)
(* A str is a sequence of one-character strings.  event['data'] is the     *)
(* log body as the provider sends it: "0x" and two lowercase hex digits    *)
(* per byte.  A HexBytes value (a hash, a topic) is its hex digits in      *)
(* segments; .hex() joins them behind "0x".                                *)

HexDigits == <<"0", "1", "2", "3", "4", "5", "6", "7",
               "8", "9", "a", "b", "c", "d", "e", "f">>

HexChar(v) == HexDigits[v + 1]

IsHexDigit(c) == \E v \in 0..15 : HexDigits[v + 1] = c

HexVal(c) == CHOOSE v \in 0..15 : HexDigits[v + 1] = c

\* s[a:b] for 0 <= a <= b: the characters at (0-based) a..b-1 that exist.
PySlice(s, a, b) ==
    IF a >= Min2(b, Len(s)) THEN <<>> ELSE SubSeq(s, a + 1, Min2(b, Len(s)))

\* The hex digits of a str, most significant first, as a number.  Leading
\* zeros add nothing, so the sum starts at the first digit that is not "0".
RECURSIVE DigitsSum(_)
DigitsSum(s) ==
    IF s = <<>> THEN 0
    ELSE 16 * DigitsSum(SubSeq(s, 1, Len(s) - 1)) + HexVal(s[Len(s)])

DigitsValue(s) ==
    LET nz == {i \in 1..Len(s) : s[i] # "0"}
    IN  IF nz = {} THEN 0
        ELSE DigitsSum(SubSeq(s, CHOOSE i \in nz : \A j \in nz : i <= j, Len(s)))

\* int(s, 16): an optional "0x" prefix, then one hex digit or more; anything
\* else (the empty string too) raises ValueError.
IntBase16(s) ==
    LET body == IF Len(s) >= 2 /\ s[1] = "0" /\ s[2] = "x"
                THEN SubSeq(s, 3, Len(s)) ELSE s
    IN  IF body # <<>> /\ \A i \in 1..Len(body) : IsHexDigit(body[i])
        THEN [ok |-> TRUE, value |-> DigitsValue(body)]
        ELSE [ok |-> FALSE, value |-> 0]

\* The number of hex digits of one 32-byte word.
WordHexLen == 64

\* A uint256 as the provider encodes it in a log body: WordHexLen hex digits,
\* big-endian, zero-padded on the left.  (The amounts of the model are below
\* 16^8: the digits above the low eight are the padding.)
RECURSIVE LowDigits(_, _)
LowDigits(v, n) ==
    IF n = 0 THEN <<>> ELSE Append(LowDigits(v \div 16, n - 1), HexChar(v % 16))

ToHex(v, n) ==
    IF n <= 8 THEN LowDigits(v, n)
    ELSE [i \in 1..(n - 8) |-> "0"] \o LowDigits(v, 8)

WordHex(v) == ToHex(v, WordHexLen)

\* A log body of nbytes bytes: the words of ws one after the other, cut or
\* zero-filled to nbytes bytes, behind "0x".
RECURSIVE ConcatWords(_)
ConcatWords(ws) ==
    IF ws = <<>> THEN <<>> ELSE WordHex(Head(ws)) \o ConcatWords(Tail(ws))

LogData(ws, nbytes) ==
    LET digits == ConcatWords(ws)
    IN  <<"0", "x">> \o
        [i \in 1..(2 * nbytes) |->
            IF i <= Len(digits) THEN digits[i] ELSE "0"]

\* HexBytes.hex()
HexStr(h) == <<"0x">> \o h

\* A 32-byte topic that carries an address: 12 zero bytes, then the 20 bytes
\* of the address (pad and addr name the two runs of hex digits).
AddressTopic(a) == <<"000000000000000000000000", a>>

\* '0x' + topic.hex()[-40:]: the last 40 hex digits are the address.
TopicAddress(t) == <<"0x", t[Len(t)]>>

-----------------------------------------------------------------------------
(* The chain the endpoint serves.                                          *)

TxHashes == {"a1", "b2"}
PairAddress == "0xPair"
SwapTopic == <<"d78ad95fa46c994b6551d0da85fc275fe613ce37657fb8d5e3d130840159d822">>

\* Every transaction sits in one block; a block has one timestamp.
TxBlock(h) == IF h = "a1" THEN 101 ELSE 102
BlockTimestamp(b) == IF b = 101 THEN 100 ELSE 86405
TxGasPrice(h) == IF h = "a1" THEN 20 ELSE 30
TxGasUsed(h) == IF h = "a1" THEN 21000 ELSE 50000

\* What get_block, get_transaction and get_transaction_receipt return.
Block(b) == [timestamp |-> BlockTimestamp(b)]
Transaction(h) == [gasPrice |-> TxGasPrice(h)]
Receipt(h) == [gasUsed |-> TxGasUsed(h)]

\* A raw swap log as w3.eth.filter(...).get_all_entries() returns it.
RawLog(h, li, from, to, data) ==
    [blockNumber |-> TxBlock(h), transactionHash |-> <<h>>, logIndex |-> li,
     address |-> PairAddress,
     topics |-> <<SwapTopic, AddressTopic(from), AddressTopic(to)>>,
     data |-> data]

-----------------------------------------------------------------------------
(* fetch_swap_events, lines 195-212: the record built from one log.        *)

\* The second amount read from the slice of the first word.
Amount1InFirstWord(data) == IntBase16(PySlice(data, 2, 66))

\* 'amount0_in': int(event['data'][2:66], 16), and the three after it.
Amount0In(data) == IntBase16(PySlice(data, 2, 66))
Amount1In(data) == IntBase16(PySlice(data, 66, 130))
Amount0Out(data) == IntBase16(PySlice(data, 130, 194))
Amount1Out(data) == IntBase16(PySlice(data, 194, 258))

\* The outcome of a step that raised, and of one that has not run yet.
Raised(exception) == [ok |-> FALSE, error |-> exception, trade |-> None]
Pending == Raised("pending")

\* The dict literal of lines 195-208 and the two assignments after it.  A
\* missing topic raises IndexError, a slice that is no hex number ValueError.
ParseSwapData(e, block, transaction, receipt) ==
    LET a0i == Amount0In(e.data)
        a1i == Amount1In(e.data)
        a0o == Amount0Out(e.data)
        a1o == Amount1Out(e.data)
    IN  IF Len(e.topics) < 3
        THEN Raised("IndexError")
        ELSE IF ~(a0i.ok /\ a1i.ok /\ a0o.ok /\ a1o.ok)
        THEN Raised("ValueError")
        ELSE [ok |-> TRUE, error |-> "",
              trade |-> [block_number |-> e.blockNumber,
                         transaction_hash |-> HexStr(e.transactionHash),
                         pair_address |-> e.address,
                         sender |-> TopicAddress(e.topics[2]),
                         to_address |-> TopicAddress(e.topics[3]),
                         amount0_in |-> a0i.value,
                         amount1_in |-> a1i.value,
                         amount0_out |-> a0o.value,
                         amount1_out |-> a1o.value,
                         timestamp |-> block.timestamp,
                         gas_price |-> transaction.gasPrice,
                         gas_used |-> receipt.gasUsed,
                         token0_address |-> None,
                         token1_address |-> None]]

\* Decoding one log, its block, transaction and receipt at hand.
DecodeEvent ==
    /\ swap_data = Pending
    /\ swap_data' = ParseSwapData(event, Block(event.blockNumber),
                                  Transaction(event.transactionHash[1]),
                                  Receipt(event.transactionHash[1]))
    /\ UNCHANGED <<event, retry_vars, endpoint_vars, scan_vars, store_vars>>

\* The amounts a log body may carry, and the lengths (in bytes) it may have.
WordValues == {0, 4660, 2147483647}
BodyLength == 128
DataLengths == {0, 32, 64, 96, 100, 127, 128, 129, 160}

DecodeLogs ==
    { RawLog("a1", 0, "aa", "bb", LogData(<<w0, w1, w2, w3>>, n)) :
        w0 \in WordValues, w1 \in WordValues, w2 \in WordValues,
        w3 \in WordValues, n \in {BodyLength} }
    \cup
    { RawLog("a1", 0, "aa", "bb", LogData(<<1, 2, 3, 4, 5>>, n)) :
        n \in DataLengths }

\* The log and the outcome held while no log is being decoded.
NoEvent == RawLog("a1", 0, "aa", "bb", <<>>)

NotDecoding == Raised("idle")
-----------------------------------------------------------------------------
(* The RPC operations, as fetch_swap_events calls them: each once, bare.   *)

\* An endpoint none of whose calls raises.
RpcNeverFails(op, arg, F) == FALSE

\* The call <<op, arg>> raises when the endpoint fails it.
RpcFails(op, arg, F) == <<op, arg>> \in F

\* The log query: the logs of the chain in [from_block, to_block], in the
\* chain's order (eth_getLogs orders by block, then by log index).
GetLogs(c, from_block, to_block) ==
    SelectSeq(c, LAMBDA e : from_block <= e.blockNumber /\ e.blockNumber <= to_block)

-----------------------------------------------------------------------------
(* fetch_swap_events                                                       *)

DefaultLimit == 1000

\* Lines 188-218 for one log: the three context lookups, then the record.
\* Any exception of the body is caught by "except Exception" (line 216).
\* rpc lists the calls made.
ProcessEvent(e, F) ==
    LET h == e.transactionHash[1]
        getBlock == <<"get_block", e.blockNumber>>
        getTx == <<"get_transaction", h>>
        getReceipt == <<"get_transaction_receipt", h>>
    IN  IF RpcFails("get_block", e.blockNumber, F)
        THEN [out |-> Raised("RpcError"), rpc |-> <<getBlock>>]
        ELSE IF RpcFails("get_transaction", h, F)
        THEN [out |-> Raised("RpcError"), rpc |-> <<getBlock, getTx>>]
        ELSE IF RpcFails("get_transaction_receipt", h, F)
        THEN [out |-> Raised("RpcError"), rpc |-> <<getBlock, getTx, getReceipt>>]
        ELSE [out |-> ParseSwapData(e, Block(e.blockNumber), Transaction(h),
                                    Receipt(h)),
              rpc |-> <<getBlock, getTx, getReceipt>>]

\* A list that grows at its front.
PrependTrade(acc, trade) == <<trade>> \o acc

\* swap_events.append(swap_data)
AppendTrade(acc, trade) == Append(acc, trade)

\* A handler that gives up on the rest of the batch.
OnEventErrorAbort(evs, i) == Len(evs) + 1

\* "continue" (line 218): the loop goes on with the next log.
OnEventError(evs, i) == i + 1

\* The for loop of line 187 over evs = events[:limit], from its i-th log on.
RECURSIVE ScanLoop(_, _, _, _, _)
ScanLoop(evs, i, F, acc, rpc) ==
    IF i > Len(evs) THEN [swap_events |-> acc, rpc |-> rpc]
    ELSE LET r == ProcessEvent(evs[i], F)
         IN  IF r.out.ok
             THEN ScanLoop(evs, i + 1, F, AppendTrade(acc, r.out.trade),
                           Append(rpc, r.rpc))
             ELSE ScanLoop(evs, OnEventError(evs, i), F, acc, Append(rpc, r.rpc))

\* The whole function.  A failure of the log query (the filter or
\* get_all_entries) is caught by the outer handler, which returns [].
FetchSwapEventsResult(c, F, from_block, to_block, limit) ==
    LET getLogs == <<"get_logs", 0>>
    IN  IF RpcFails("get_logs", 0, F)
        THEN [events |-> <<>>, swap_events |-> <<>>, rpc |-> << <<getLogs>> >>]
        ELSE LET evs == GetLogs(c, from_block, to_block)
                 loop == ScanLoop(PySlice(evs, 0, limit), 1, F, <<>>,
                                  << <<getLogs>> >>)
             IN  [events |-> evs, swap_events |-> loop.swap_events,
                  rpc |-> loop.rpc]

\* A call of fetch_swap_events(from_block, to_block, limit).
FetchSwapEvents(from_block, to_block, limit) ==
    LET r == FetchSwapEventsResult(chain, faults, from_block, to_block, limit)
    IN  /\ scan_args' = [from_block |-> from_block, to_block |-> to_block,
                         limit |-> limit]
        /\ events' = r.events
        /\ rpc_log' = r.rpc
        /\ swap_events' = r.swap_events
        /\ UNCHANGED <<endpoint_vars, store_vars, retry_vars, decode_vars>>

-----------------------------------------------------------------------------
(* The chains and the faults of the model.                                 *)

\* The logs of the chain, in chain order: <<transaction, log index>>.
LogKeys == << <<"a1", 0>>, <<"a1", 1>>, <<"b2", 0>>, <<"b2", 1>> >>

\* The sender of each log.
KeySender(k) == IF k[2] = 0 THEN "aa" ELSE "bb"

\* A well-formed log; one whose body is two words short; one without the
\* two address topics.
LogShapes == {"swap", "short_body", "no_topics"}

ShapedLog(k, shape) ==
    LET good == RawLog(k[1], k[2], KeySender(k), "bb",
                       LogData(<<k[2] + 1, 0, 0, 4660>>, BodyLength))
    IN  CASE shape = "swap" -> good
          [] shape = "short_body" ->
                [good EXCEPT !.data = LogData(<<1, 2>>, 64)]
          [] shape = "no_topics" ->
                [good EXCEPT !.topics = <<SwapTopic>>]

\* The chain holding the logs of ks, shaped by shape, in chain order.
ChainOf(ks, shape) ==
    LET kept == SelectSeq(LogKeys, LAMBDA k : k \in ks)
    IN  [i \in 1..Len(kept) |-> ShapedLog(kept[i], shape[kept[i]])]

KeySet == {LogKeys[i] : i \in 1..Len(LogKeys)}

Chains ==
    UNION { { ChainOf(ks, shape) : shape \in [ks -> LogShapes] } :
            ks \in {x \in SUBSET KeySet : Cardinality(x) <= MaxLogs} }

RpcCalls ==
    {<<"get_logs", 0>>, <<"block_number", 0>>}
    \cup {<<"get_block", b>> : b \in {TxBlock(h) : h \in TxHashes}}
    \cup {<<"get_transaction", h>> : h \in TxHashes}
    \cup {<<"get_transaction_receipt", h>> : h \in TxHashes}

FaultSets == {f \in SUBSET RpcCalls : Cardinality(f) <= MaxFaults}

Limits == {1, 2, DefaultLimit}

BlockNumbers == {TxBlock(h) : h \in TxHashes}

\* The arguments recorded before any call of fetch_swap_events.
NoScanArgs == [from_block |-> 0, to_block |-> 0, limit |-> DefaultLimit]

LatestBlocks == {102, 202}



-----------------------------------------------------------------------------
(* The SQLite database: init_database, save_trades_to_db,                  *)
(* update_wallet_stats.  The created_at columns (the clock) are left out.  *)

\* CREATE TABLE trades: the only key is "id INTEGER PRIMARY KEY
\* AUTOINCREMENT"; no other column is UNIQUE.  Rows are never deleted, so
\* the id SQLite gives a new row is one more than the number of rows.
NextRowId(table) == Len(table) + 1

\* A row conflicts with the table when it repeats a PRIMARY KEY or UNIQUE
\* value: for trades, the id.
TradeConflict(table, row) == \E i \in 1..Len(table) : table[i].id = row.id

\* INSERT OR IGNORE INTO trades (...) VALUES (...): the id is not among the
\* columns given, so it is assigned; a conflicting row is dropped.
InsertOrIgnoreTrade(table, trade) ==
    LET row == [id |-> NextRowId(table), cols |-> trade]
    IN  IF TradeConflict(table, row) THEN table ELSE Append(table, row)

\* cursor.execute raises for this trade (the disk, a corrupt file, a value
\* SQLite cannot bind): D holds <<"insert", h>> for the transactions h whose
\* trades cannot be inserted.
InsertRaises(trade, D) == <<"insert", trade.transaction_hash[2]>> \in D

\* The for loop of save_trades_to_db (lines 235-248) inside the connection's
\* open transaction: the rows as the connection sees them when the loop ends
\* or an execute raises.
RECURSIVE InsertAll(_, _, _)
InsertAll(table, list, D) ==
    IF list = <<>> THEN [raised |-> FALSE, table |-> table]
    ELSE IF InsertRaises(Head(list), D) THEN [raised |-> TRUE, table |-> table]
    ELSE InsertAll(InsertOrIgnoreTrade(table, Head(list)), Tail(list), D)

\* A connection in autocommit mode: the rows inserted before the error stay.
OnInsertErrorKeep(before, working) == working

\* An execute that raises leaves save_trades_to_db before conn.commit()
\* (line 250): the connection is dropped with its transaction open and
\* SQLite rolls the transaction back.
OnInsertError(before, working) == before

\* save_trades_to_db(list): nothing for an empty list, not even a
\* connection (lines 229-230); else the loop and one commit.
SaveTradesResult(table, list, D) ==
    IF list = <<>>
    THEN [raised |-> FALSE, table |-> table, connected |-> FALSE]
    ELSE LET r == InsertAll(table, list, D)
         IN  IF r.raised
             THEN [raised |-> TRUE, table |-> OnInsertError(table, r.table),
                   connected |-> TRUE]
             ELSE [raised |-> FALSE, table |-> r.table, connected |-> TRUE]

\* A value of a row as SQLite stores it.
SqlText(t) == [type |-> "TEXT", value |-> t]
SqlInteger(n) == [type |-> "INTEGER", value |-> n]
IsSqlInteger(v, n) == v.type = "INTEGER" /\ v.value = n

\* datetime(ts, 'unixepoch'): the text 'YYYY-MM-DD HH:MM:SS' (UTC) of ts
\* seconds since 1970, here its six zero-padded fields.
Datetime(ts) ==
    LET days == ts \div 86400
        secs == ts % 86400
        z == days + 719468
        era == z \div 146097
        doe == z % 146097
        yoe == (doe - doe \div 1460 + doe \div 36524 - doe \div 146096) \div 365
        doy == doe - (365 * yoe + yoe \div 4 - yoe \div 100)
        mp == (5 * doy + 2) \div 153
        d == doy - (153 * mp + 2) \div 5 + 1
        m == IF mp < 10 THEN mp + 3 ELSE mp - 9
        y == yoe + era * 400 + (IF m <= 2 THEN 1 ELSE 0)
    IN  <<y, m, d, secs \div 3600, (secs % 3600) \div 60, secs % 60>>

\* The order of two such texts: SQLite compares TEXT byte by byte, which for
\* zero-padded fields of equal width is the order of the first field that
\* differs.
TextLeq(a, b) ==
    \/ a = b
    \/ \E k \in 1..Len(a) :
          /\ \A j \in 1..(k - 1) : a[j] = b[j]
          /\ a[k] < b[k]

\* MIN(...) and MAX(...) over the texts of a group.
TextMin(ts) == CHOOSE t \in ts : \A u \in ts : TextLeq(t, u)
TextMax(ts) == CHOOSE t \in ts : \A u \in ts : TextLeq(u, t)

\* SELECT sender, COUNT(*), MIN(datetime(timestamp, 'unixepoch')),
\* MAX(datetime(timestamp, 'unixepoch')) FROM trades GROUP BY sender:
\* the senders, and the row of one sender.
Senders(table) == {table[i].cols.sender : i \in 1..Len(table)}

WalletStatsRow(table, a) ==
    LET rows == {i \in 1..Len(table) : table[i].cols.sender = a}
        texts == {Datetime(table[i].cols.timestamp) : i \in rows}
    IN  [wallet |-> a,
         trade_count |-> Cardinality(rows),
         first_trade |-> SqlText(TextMin(texts)),
         last_trade |-> SqlText(TextMax(texts))]

\* The row INSERT ... INTO wallets (address, total_trades, first_trade_date,
\* last_trade_date) writes: total_volume_usd takes its default.
WalletRow(stats) ==
    [address |-> stats.wallet,
     total_trades |-> stats.trade_count,
     total_volume_usd |-> 0,
     first_trade_date |-> stats.first_trade,
     last_trade_date |-> stats.last_trade]

\* INSERT OR IGNORE: a row whose address is already there stays as it is.
InsertOrIgnoreWallet(w, a, row) == IF a \in DOMAIN w THEN w[a] ELSE row

\* INSERT OR REPLACE INTO wallets: address is the PRIMARY KEY, so the row of
\* that address, if any, is replaced.
InsertOrReplaceWallet(w, a, row) == row

\* update_wallet_stats: one INSERT OR REPLACE per row of the query.  The
\* addresses of the query differ, so the order of the loop does not matter.
UpdateWalletStatsResult(table, w) ==
    [a \in (DOMAIN w) \cup Senders(table) |->
        IF a \in Senders(table)
        THEN InsertOrReplaceWallet(w, a, WalletRow(WalletStatsRow(table, a)))
        ELSE w[a]]

\* update_wallet_stats with a database that may fail: an exception of the
\* query or of an insert leaves the function before conn.commit() (line
\* 279), so table wallets stays as it was.
UpdateWalletStatsOutcome(table, w, D) ==
    IF <<"wallet_stats", 0>> \in D
    THEN [raised |-> TRUE, wallets |-> w]
    ELSE [raised |-> FALSE, wallets |-> UpdateWalletStatsResult(table, w)]

-----------------------------------------------------------------------------
(* Operations on the pipeline object.                                      *)

\* An optional argument: <<>> is None, <<n>> is n.
IsNone(x) == x = <<>>

\* What is remembered of an operation: its name; for run_full_pipeline the
\* range scanned, the number of trades the scanner returned, the number of
\* rows the run added to trades, and whether the operation before it was a
\* run over the same range.
Op(name, args, processed, added, repeat) ==
    [name |-> name, args |-> args, processed |-> processed, added |-> added,
     repeat |-> repeat]

\* The <<transaction, log index>> of a log.
LogKey(e) == <<e.transactionHash[1], e.logIndex>>

\* How an operation went.  given: the arguments of the call.  scan_call:
\* the <<from_block, to_block>> handed to fetch_swap_events, <<>> when it was
\* not called.  steps: the steps entered, in order.  outcome: "completed" or
\* "raised".  summary: the count lines printed, <<label, value>> each.
\* submitted: the list handed to save_trades_to_db.  connected: whether
\* save_trades_to_db opened a connection.  skipped: the logs the scan skipped.
Run(given, scan_call, steps, outcome, summary, submitted, connected, skipped) ==
    [given |-> given, scan_call |-> scan_call, steps |-> steps,
     outcome |-> outcome, summary |-> summary, submitted |-> submitted,
     connected |-> connected, skipped |-> skipped]

\* A direct call save_trades_to_db(list); batch pairs every trade with the
\* key of the log it stands for.
SaveTradesToDb(batch) ==
    LET list == [k \in 1..Len(batch) |-> batch[k].trade]
        r == SaveTradesResult(trades, list, db_faults)
    IN  /\ Len(trades) + Len(batch) <= MaxRows
        /\ trades' = r.table
        /\ row_origin' = IF r.raised THEN row_origin
                         ELSE row_origin \o [k \in 1..Len(batch) |-> batch[k].key]
        /\ last_op' = Op(IF r.raised THEN "save_trades_to_db raised"
                         ELSE "save_trades_to_db", <<>>, 0, 0, FALSE)
        /\ run' = Run(<<>>, <<>>, <<"save">>,
                      IF r.raised THEN "raised" ELSE "completed", <<>>, list,
                      r.connected, 0)
        /\ UNCHANGED <<wallets, db_faults, endpoint_vars, scan_vars, retry_vars,
                       decode_vars>>

\* A direct call update_wallet_stats().
UpdateWalletStats ==
    LET u == UpdateWalletStatsOutcome(trades, wallets, db_faults)
    IN  /\ wallets' = u.wallets
        /\ last_op' = Op(IF u.raised THEN "update_wallet_stats raised"
                         ELSE "update_wallet_stats", <<>>, 0, 0, FALSE)
        /\ run' = Run(<<>>, <<>>, <<"update">>,
                      IF u.raised THEN "raised" ELSE "completed", <<>>, <<>>,
                      FALSE, 0)
        /\ UNCHANGED <<trades, db_faults, row_origin, endpoint_vars, scan_vars,
                       retry_vars, decode_vars>>

\* Lines 448-451: the range handed to the scanner.  Only from_block is
\* tested; when it is None both bounds are taken from the latest block.
ResolveRange(from_block, to_block, latest) ==
    IF IsNone(from_block) THEN << <<latest - 100>>, <<latest>> >>
    ELSE <<from_block, to_block>>

\* What the endpoint makes of a log query whose toBlock is None (the source
\* does not settle it): the latest block, or a rejected query.
ToBlockNoneOutcomes == {"latest", "rejected"}

\* fetch_swap_events(from_block, to_block) as run_full_pipeline calls it
\* (line 455): from_block is an integer, to_block may be None.
ScanCall(c, F, from, to, latest, none_as) ==
    IF ~IsNone(to) THEN FetchSwapEventsResult(c, F, from, to[1], DefaultLimit)
    ELSE IF none_as = "latest"
    THEN FetchSwapEventsResult(c, F, from, latest, DefaultLimit)
    ELSE FetchSwapEventsResult(c, F \cup {<<"get_logs", 0>>}, from, latest,
                               DefaultLimit)

\* A run that lets the exception of a step pass.
SwallowedByRun(raised) == FALSE

\* run_full_pipeline has no try: an exception raised by a step leaves the
\* function there and then.
Uncaught(raised) == raised

\* Line 472, the count line of the summary: "Total trades processed:
\* {len(swap_events)}".  (The tables printed after it show the database, not
\* the run.)
Summary(list) == << <<"processed", Len(list)>> >>

\* run_full_pipeline(from_block, to_block), steps 1 to 4 (the charts and
\* exports after them read the database and write none of it).  The lookup
\* of the latest block is outside any try, so its failure ends the run
\* before step 1.
RunFullPipeline(from_block, to_block, none_as) ==
    LET given == <<from_block, to_block>>
        range == ResolveRange(from_block, to_block, latest_block)
        from == range[1][1]
        to == range[2]
        failed == Op("run_full_pipeline raised", <<>>, 0, 0, FALSE)
    IN  /\ ~IsNone(to) => none_as = "latest"   \* none_as matters for None only
        /\ IF IsNone(from_block) /\ RpcFails("block_number", 0, faults)
           THEN /\ last_op' = failed
                /\ run' = Run(given, <<>>, <<>>, "raised", <<>>, <<>>, FALSE, 0)
                /\ UNCHANGED <<trades, wallets, row_origin>>
           ELSE \E r \in {ScanCall(chain, faults, from, to, latest_block, none_as)} :
                \E save \in {SaveTradesResult(trades, r.swap_events, db_faults)} :
                \E update \in {UpdateWalletStatsOutcome(save.table, wallets,
                                                        db_faults)} :
                  LET looked == PySlice(r.events, 0, DefaultLimit)
                      good == SelectSeq(looked,
                                  LAMBDA e : ProcessEvent(e, faults).out.ok)
                      origin == [k \in 1..Len(good) |-> LogKey(good[k])]
                      skipped == Len(looked) - Len(r.swap_events)
                      again == /\ ~IsNone(to)
                               /\ last_op.name = "run_full_pipeline"
                               /\ last_op.args = <<from, to[1]>>
                  IN  /\ Len(trades) + Len(r.swap_events) <= MaxRows
                      /\ IF Uncaught(save.raised)
                         THEN /\ last_op' = failed
                              /\ run' = Run(given, range, <<"fetch", "save">>,
                                            "raised", <<>>, r.swap_events,
                                            save.connected, skipped)
                              /\ trades' = save.table
                              /\ UNCHANGED <<wallets, row_origin>>
                         ELSE IF Uncaught(update.raised)
                         THEN /\ last_op' = failed
                              /\ run' = Run(given, range,
                                            <<"fetch", "save", "update">>,
                                            "raised", <<>>, r.swap_events,
                                            save.connected, skipped)
                              /\ trades' = save.table
                              /\ row_origin' = row_origin \o origin
                              /\ wallets' = update.wallets
                         ELSE /\ last_op' =
                                    Op("run_full_pipeline",
                                       IF IsNone(to) THEN <<>> ELSE <<from, to[1]>>,
                                       Len(r.swap_events),
                                       Len(save.table) - Len(trades), again)
                              /\ run' = Run(given, range,
                                            <<"fetch", "save", "update", "report">>,
                                            "completed", Summary(r.swap_events),
                                            r.swap_events, save.connected, skipped)
                              /\ trades' = save.table
                              /\ row_origin' = row_origin \o origin
                              /\ wallets' = update.wallets
        /\ UNCHANGED <<db_faults, endpoint_vars, scan_vars, retry_vars,
                       decode_vars>>

\* The trades handed to save_trades_to_db directly: sender 0xaa at the
\* timestamps 100, 500 and 300.
DirectTrade(h, li, a, ts) ==
    [trade |-> [block_number |-> TxBlock(h),
                transaction_hash |-> HexStr(<<h>>),
                pair_address |-> PairAddress,
                sender |-> TopicAddress(AddressTopic(a)),
                to_address |-> TopicAddress(AddressTopic("bb")),
                amount0_in |-> 1, amount1_in |-> 0,
                amount0_out |-> 0, amount1_out |-> 4660,
                timestamp |-> ts,
                gas_price |-> TxGasPrice(h), gas_used |-> TxGasUsed(h),
                token0_address |-> None, token1_address |-> None],
     key |-> <<h, li>>]

DirectTrades ==
    {DirectTrade("a1", 0, "aa", 100), DirectTrade("a1", 1, "aa", 500),
     DirectTrade("b2", 0, "aa", 300)}

Batches == UNION {[1..n -> DirectTrades] : n \in 0..MaxBatch}

\* Three well-formed logs and one that is two words short, in blocks 101
\* and 102.
FixtureChain ==
    ChainOf(KeySet, [k \in KeySet |->
                        IF k = <<"a1", 1>> THEN "short_body" ELSE "swap"])

\* The chains of the store's specification: one well-formed log, or three
\* logs of which the second is two words short.
StoreChains ==
    { ChainOf({<<"a1", 0>>}, [k \in {<<"a1", 0>>} |-> "swap"]),
      ChainOf({<<"a1", 0>>, <<"a1", 1>>, <<"b2", 0>>},
              [k \in {<<"a1", 0>>, <<"a1", 1>>, <<"b2", 0>>} |->
                  IF k = <<"a1", 1>> THEN "short_body" ELSE "swap"]),
      FixtureChain }

StoreFaultSets == {{}, {<<"block_number", 0>>}, {<<"get_logs", 0>>}}

\* The storage faults of the store's specification: none; the trades of
\* transaction b2 cannot be inserted; the wallet statistics cannot be
\* written.
StoreDbFaultSets == {{}, {<<"insert", "b2">>}, {<<"wallet_stats", 0>>}}

BlockArgs == {<<>>} \cup {<<b>> : b \in BlockNumbers}

\* The calls run_full_pipeline(from_block, to_block) of the model.
PipelineArgs == BlockArgs \X BlockArgs

\* The endpoints and databases the store's specification starts from: the
\* fixture chain on a sound endpoint and a sound database, and every
\* setting that differs from it in one respect.
Scenarios ==
    {sc \in [chain : StoreChains, faults : StoreFaultSets,
             db_faults : StoreDbFaultSets, latest_block : LatestBlocks] :
        Cardinality({x \in {<<1, sc.chain = FixtureChain>>,
                            <<2, sc.faults = {}>>,
                            <<3, sc.db_faults = {}>>,
                            <<4, sc.latest_block = 102>>} : ~x[2]}) <= 1}

\* The state of run before any method is called.
NoRun == Run(<<>>, <<>>, <<>>, "completed", <<>>, <<>>, FALSE, 0)

\* The history before any method is called on the constructed pipeline.
Constructed == Op("__init__", <<>>, 0, 0, FALSE)

-----------------------------------------------------------------------------
(* Claims about retry_web3_call (checked under SpecRetry).                 *)

\* C6: when func fails N times and then succeeds, with N < max_retries, the
\* call returns func's value, exactly N delays were slept, the k-th delay
\* (k = 0, 1, ...) is delay * 2^k, and each delay is at least twice the one
\* before it.
C6_RetrySucceedsAfterNFailures ==
    (status = "returned" /\ func_fails < max_retries) =>
        /\ result = FuncValue
        /\ calls = func_fails + 1
        /\ Len(sleeps) = func_fails
        /\ \A k \in 1..Len(sleeps) : sleeps[k] = delay * Pow2(k - 1)
        /\ \A k \in 2..Len(sleeps) : sleeps[k] >= 2 * sleeps[k - 1]

\* A call that failed three times before it succeeded, with a positive delay.
C6_Witness ==
    /\ status = "returned"
    /\ func_fails = 3
    /\ func_fails < max_retries
    /\ delay = 2
    /\ sleeps = <<2, 4, 8>>

\* C7: a malformed-response or not-found error is reported after the first
\* attempt: func is not invoked again and no backoff delay is taken.
C7_NonTransientNotRetried ==
    (func_error \in NonTransient /\ status \in {"running", "returned", "raised"}
        /\ func_fails >= 1) =>
        /\ calls <= 1
        /\ sleeps = <<>>

\* C15: with max_retries >= 1 and a func that raises on every attempt, func
\* is never invoked more than max_retries times, the call never returns, and
\* when the error is raised to the caller func has been invoked exactly
\* max_retries times, exactly max_retries - 1 delays were slept, and the
\* error raised is func's.
C15_AlwaysFailingCallExhaustsBudget ==
    (status # "idle" /\ max_retries >= 1 /\ func_fails >= max_retries) =>
        /\ calls <= max_retries
        /\ Len(sleeps) <= max_retries - 1
        /\ status # "returned"
        /\ status = "raised" =>
              /\ calls = max_retries
              /\ Len(sleeps) = max_retries - 1
              /\ result = func_error

\* The default budget spent on a func that always raises: three
\* invocations, two delays, then the error.
C15_Witness ==
    /\ status = "raised"
    /\ max_retries = DefaultMaxRetries
    /\ func_fails >= max_retries
    /\ calls = 3
    /\ Len(sleeps) = 2
    /\ result = func_error

-----------------------------------------------------------------------------
(* Claims about decoding one log (checked under SpecDecode).               *)

\* The log body of the log being decoded is nbytes bytes long.
DataBytes(e) == (Len(e.data) - 2) \div 2

\* C3: a log whose body is exactly four 32-byte big-endian words w0 w1 w2 w3
\* decodes to amount0_in = w0, amount1_in = w1, amount0_out = w2 and
\* amount1_out = w3, the unsigned values as they are.
C3_DecodeFourWords ==
    \A w0 \in WordValues, w1 \in WordValues, w2 \in WordValues, w3 \in WordValues :
        (swap_data # Pending
            /\ event.data = LogData(<<w0, w1, w2, w3>>, BodyLength)) =>
            /\ swap_data.ok
            /\ swap_data.trade.amount0_in = w0
            /\ swap_data.trade.amount1_in = w1
            /\ swap_data.trade.amount0_out = w2
            /\ swap_data.trade.amount1_out = w3

\* A decoded log whose four words differ from each other.
C3_Witness ==
    /\ swap_data.ok
    /\ event.data = LogData(<<4660, 0, 2147483647, 4660>>, BodyLength)
    /\ swap_data.trade.amount0_out = 2147483647

\* C4: a log whose body is not exactly 128 bytes long gives a decode error
\* and no trade record.
C4_WrongLengthIsDecodeError ==
    (swap_data # Pending /\ DataBytes(event) # BodyLength) => ~swap_data.ok

-----------------------------------------------------------------------------
(* Claims about fetch_swap_events (checked under SpecScan).                *)

\* fetch_swap_events has been called.
Scanned == rpc_log # <<>>

\* How often call c occurs in the sequence of calls cs.
CallCount(cs, c) == Cardinality({k \in 1..Len(cs) : cs[k] = c})

\* C8: every RPC operation of the ingestion (log query, block, transaction
\* and receipt lookup) that fails transiently is retried, up to the capped
\* number of attempts (3), before its failure counts: a call that keeps
\* failing has been attempted 3 times for the log or batch it was made for.
C8_RpcCallsRetried ==
    \A i \in 1..Len(rpc_log) : \A k \in 1..Len(rpc_log[i]) :
        rpc_log[i][k] \in faults =>
            CallCount(rpc_log[i], rpc_log[i][k]) = DefaultMaxRetries

\* The logs fetch_swap_events processes: events[:limit].
Processed == PySlice(events, 0, scan_args.limit)

\* Processing log e succeeds; the trade it gives.
Succeeds(e) == ProcessEvent(e, faults).out.ok
TradeOf(e) == ProcessEvent(e, faults).out.trade

\* The trades of the logs of evs whose processing succeeds, one each, in the
\* order of evs.
TradesOfSucceeding(evs) ==
    LET good == SelectSeq(evs, Succeeds)
    IN  [k \in 1..Len(good) |-> TradeOf(good[k])]

\* C9: of two trades of the returned list, the one of the lower block comes
\* first, and the list keeps the order in which the log query returned the
\* logs.
C9_OrderPreserved ==
    Scanned =>
        /\ \A a, b \in 1..Len(swap_events) :
              swap_events[a].block_number < swap_events[b].block_number => a < b
        /\ \A a, b \in 1..Len(swap_events) :
              a < b => \E i, j \in 1..Len(events) :
                          /\ i < j
                          /\ Succeeds(events[i]) /\ TradeOf(events[i]) = swap_events[a]
                          /\ Succeeds(events[j]) /\ TradeOf(events[j]) = swap_events[b]

\* Three trades of two blocks were returned.
C9_Witness ==
    /\ Scanned
    /\ Len(swap_events) = 3
    /\ swap_events[1].block_number < swap_events[3].block_number

\* C10 (as amended): a failure while processing one log skips only that log.
\* The returned list holds exactly one trade for every log among the first
\* `limit` logs of the log query whose processing succeeds, in order, and
\* none for a log whose processing fails.
C10_FailureSkipsOnlyThatLog ==
    Scanned => swap_events = TradesOfSucceeding(Processed)

\* A failing log between two that succeed, both of which gave a trade.
C10_Witness ==
    /\ Scanned
    /\ Len(Processed) = 3
    /\ Succeeds(Processed[1]) /\ ~Succeeds(Processed[2]) /\ Succeeds(Processed[3])
    /\ Len(swap_events) = 2

\* C10 (as stated): the returned list holds exactly one trade for every log
\* the log query returned whose processing succeeds, and none for a log
\* whose processing fails.
C10_OneTradePerSucceedingLog ==
    Scanned => swap_events = TradesOfSucceeding(events)

\* What fetch_swap_events returns for the same arguments when the log query
\* succeeds and the range holds no swap log.
EmptyRangeResult ==
    FetchSwapEventsResult(<<>>, {}, scan_args.from_block, scan_args.to_block,
                          scan_args.limit).swap_events

\* C11: when the endpoint rejects the log query at every width, the query is
\* issued again for narrower ranges (a range wider than one block is queried
\* more than once), and the failure of the batch reaches the caller: what
\* the call gives back differs from what it gives for a range without swap
\* logs.
C11_RejectedRangeHalvedAndReported ==
    (Scanned /\ RpcFails("get_logs", 0, faults)) =>
        /\ scan_args.from_block < scan_args.to_block =>
              CallCount(rpc_log[1], <<"get_logs", 0>>) > 1
        /\ swap_events # EmptyRangeResult

-----------------------------------------------------------------------------
(* Claims about the store and the orchestrator (checked under Spec).       *)

\* C1: a second run_full_pipeline over the same block range, the endpoint
\* returning the same logs, leaves the rows of trades as the first run left
\* them: it adds no row.
C1_SecondRunAddsNoRows ==
    (last_op.name = "run_full_pipeline" /\ last_op.repeat) => last_op.added = 0

\* C2: no two rows of trades stand for the same (transaction hash, log
\* index), whatever lists save_trades_to_db was called with: saving a trade
\* that is already stored changes nothing.
C2_TradeKeysUnique ==
    \A i, j \in 1..Len(row_origin) :
        i # j => row_origin[i] # row_origin[j]

\* update_wallet_stats has just completed (on its own or as step 3 of a run).
WalletsRefreshed ==
    last_op.name \in {"update_wallet_stats", "run_full_pipeline"}

\* The rows of trades sent by a, and their timestamps.
RowsOf(a) == {i \in 1..Len(trades) : trades[i].cols.sender = a}
TimestampsOf(a) == {trades[i].cols.timestamp : i \in RowsOf(a)}
MinOf(ns) == CHOOSE n \in ns : \A m \in ns : n <= m
MaxOf(ns) == CHOOSE n \in ns : \A m \in ns : m <= n

\* C5 (as amended): after update_wallet_stats, wallets has exactly one row
\* for every distinct sender of trades; its total_trades is the number of
\* rows of that sender, its first_trade_date the datetime text of their
\* least timestamp and its last_trade_date the datetime text of their
\* greatest, whatever wallets held before.
C5_WalletStatsRecomputed ==
    WalletsRefreshed =>
        /\ DOMAIN wallets = Senders(trades)
        /\ \A a \in Senders(trades) :
              wallets[a] =
                [address |-> a,
                 total_trades |-> Cardinality(RowsOf(a)),
                 total_volume_usd |-> 0,
                 first_trade_date |-> SqlText(Datetime(MinOf(TimestampsOf(a)))),
                 last_trade_date |-> SqlText(Datetime(MaxOf(TimestampsOf(a))))]

\* Sender 0xaa at the timestamps 100, 500, 300, refreshed over an older row:
\* 3 trades, from 1970-01-01 00:01:40 to 1970-01-01 00:08:20.
C5_Witness ==
    /\ last_op.name = "update_wallet_stats"
    /\ Len(trades) = 3
    /\ <<trades[1].cols.timestamp, trades[2].cols.timestamp,
         trades[3].cols.timestamp>> = <<100, 500, 300>>
    /\ wallets[<<"0x", "aa">>].total_trades = 3
    /\ wallets[<<"0x", "aa">>].first_trade_date = SqlText(<<1970, 1, 1, 0, 1, 40>>)
    /\ wallets[<<"0x", "aa">>].last_trade_date = SqlText(<<1970, 1, 1, 0, 8, 20>>)

\* C5 (as stated): ... its first-trade value is the minimum timestamp and its
\* last-trade value the maximum timestamp of those rows (100 and 500 for the
\* timestamps 100, 500, 300).
C5_FirstLastAreTimestamps ==
    WalletsRefreshed =>
        /\ DOMAIN wallets = Senders(trades)
        /\ \A a \in Senders(trades) :
              /\ wallets[a].total_trades = Cardinality(RowsOf(a))
              /\ IsSqlInteger(wallets[a].first_trade_date, MinOf(TimestampsOf(a)))
              /\ IsSqlInteger(wallets[a].last_trade_date, MaxOf(TimestampsOf(a)))

\* The last operation was a call of run_full_pipeline; it entered step st.
PipelineRun == run.given # <<>>
Entered(st) == \E i \in 1..Len(run.steps) : run.steps[i] = st

\* Some insert of the list raises.
SomeInsertRaises(list) == \E k \in 1..Len(list) : InsertRaises(list[k], db_faults)

\* C12: when the database raises during the save or the statistics step of
\* a run, the exception leaves run_full_pipeline (the run ends raised), the
\* failing step is the last one entered, and no summary or completion is
\* reported.
C12_StorageErrorAbortsRun ==
    PipelineRun =>
        /\ (Entered("save") /\ SomeInsertRaises(run.submitted)) =>
              /\ run.outcome = "raised"
              /\ run.steps = <<"fetch", "save">>
              /\ run.summary = <<>>
              /\ last_op.name = "run_full_pipeline raised"
        /\ (Entered("update") /\ <<"wallet_stats", 0>> \in db_faults) =>
              /\ run.outcome = "raised"
              /\ run.steps = <<"fetch", "save", "update">>
              /\ run.summary = <<>>
              /\ last_op.name = "run_full_pipeline raised"

\* A run whose save step was handed three trades and raised on the second.
C12_Witness ==
    /\ PipelineRun
    /\ Len(run.submitted) = 3
    /\ ~InsertRaises(run.submitted[1], db_faults)
    /\ InsertRaises(run.submitted[2], db_faults)
    /\ run.steps = <<"fetch", "save">>
    /\ run.outcome = "raised"

\* The count lines of the summary.
SummaryLines == {run.summary[i] : i \in 1..Len(run.summary)}

\* C13: the summary of a completed run on an empty store has a count of the
\* logs processed, a count of the trades inserted equal to the rows the run
\* added, and a count of the logs skipped equal to the logs the scan skipped.
C13_SummaryReportsCounts ==
    (PipelineRun /\ run.outcome = "completed" /\ last_op.added = Len(trades)) =>
        /\ \E line \in SummaryLines : line[1] = "processed"
        /\ <<"inserted", last_op.added>> \in SummaryLines
        /\ <<"skipped", run.skipped>> \in SummaryLines

\* C14: when run_full_pipeline is called with a bound left out, the scanner
\* is called with two integers, the lower not above the upper, and a bound
\* the caller gave is handed on as given.
C14_RangeResolved ==
    (PipelineRun /\ run.scan_call # <<>>
        /\ (IsNone(run.given[1]) \/ IsNone(run.given[2]))) =>
        /\ ~IsNone(run.scan_call[1]) /\ ~IsNone(run.scan_call[2])
        /\ run.scan_call[1][1] <= run.scan_call[2][1]
        /\ \A i \in {1, 2} : ~IsNone(run.given[i]) => run.scan_call[i] = run.given[i]

SaveRaised(rn) ==
    /\ rn.outcome = "raised"
    /\ rn.steps # <<>>
    /\ rn.steps[Len(rn.steps)] = "save"

\* C17: a call of save_trades_to_db in which an insert raises leaves table
\* trades as it was before the call; a call that returns has added one row
\* per trade of its list, in order, after the rows that were there; a call
\* with an empty list opens no connection and changes nothing; and a call
\* raises exactly when an insert of its list raises.
C17_SaveAllOrNothing ==
    [][(\E i \in 1..Len(run'.steps) : run'.steps[i] = "save") =>
          LET list == run'.submitted
          IN  /\ SaveRaised(run') <=> SomeInsertRaises(list)
              /\ SaveRaised(run') => trades' = trades
              /\ ~SaveRaised(run') =>
                    /\ Len(trades') = Len(trades) + Len(list)
                    /\ \A i \in 1..Len(trades) : trades'[i] = trades[i]
                    /\ \A k \in 1..Len(list) :
                          trades'[Len(trades) + k].cols = list[k]
              /\ list = <<>> => (~run'.connected /\ trades' = trades)
              /\ list # <<>> => run'.connected]_vars

\* A direct call with two trades whose second insert raised, on a table
\* that already held a row.
C17_Witness ==
    /\ run.steps = <<"save">>
    /\ run.outcome = "raised"
    /\ Len(run.submitted) = 2
    /\ ~InsertRaises(run.submitted[1], db_faults)
    /\ InsertRaises(run.submitted[2], db_faults)
    /\ Len(trades) = 1

-----------------------------------------------------------------------------
(* The specifications.                                                     *)

\* No call of retry_web3_call is in progress; the rest of the program is
\* untouched by it.
InitRetry ==
    /\ max_retries = DefaultMaxRetries
    /\ delay = 1
    /\ func_fails = 0
    /\ func_error = "timeout"
    /\ attempt = 0
    /\ calls = 0
    /\ sleeps = <<>>
    /\ status = "idle"
    /\ result = None
    /\ event = NoEvent
    /\ swap_data = NotDecoding
    /\ chain = <<>>
    /\ faults = {}
    /\ latest_block = 102
    /\ scan_args = NoScanArgs
    /\ events = <<>>
    /\ rpc_log = <<>>
    /\ swap_events = <<>>
    /\ trades = <<>>
    /\ wallets = <<>>
    /\ row_origin = <<>>
    /\ db_faults = {}
    /\ last_op = Constructed
    /\ run = NoRun

NextRetry ==
    \/ \E mr \in 0..MaxRetriesBound, d \in 0..MaxDelay,
          n \in 0..MaxFailures, kind \in ErrorKinds :
            RetryWeb3Call(mr, d, n, kind)
    \/ RetryAttempt
    \/ RetryDone

SpecRetry == InitRetry /\ [][NextRetry]_vars

\* One raw log is about to be decoded.
InitDecode ==
    /\ event \in DecodeLogs
    /\ swap_data = Pending
    /\ max_retries = DefaultMaxRetries
    /\ delay = 1
    /\ func_fails = 0
    /\ func_error = "timeout"
    /\ attempt = 0
    /\ calls = 0
    /\ sleeps = <<>>
    /\ status = "idle"
    /\ result = None
    /\ chain = <<>>
    /\ faults = {}
    /\ latest_block = 102
    /\ scan_args = NoScanArgs
    /\ events = <<>>
    /\ rpc_log = <<>>
    /\ swap_events = <<>>
    /\ trades = <<>>
    /\ wallets = <<>>
    /\ row_origin = <<>>
    /\ db_faults = {}
    /\ last_op = Constructed
    /\ run = NoRun

NextDecode == DecodeEvent

SpecDecode == InitDecode /\ [][NextDecode]_vars

\* An endpoint holding some logs and failing some calls, before the scan.
InitScan ==
    /\ chain \in Chains
    /\ faults \in FaultSets
    /\ latest_block = 102
    /\ max_retries = DefaultMaxRetries
    /\ delay = 1
    /\ func_fails = 0
    /\ func_error = "timeout"
    /\ attempt = 0
    /\ calls = 0
    /\ sleeps = <<>>
    /\ status = "idle"
    /\ result = None
    /\ event = NoEvent
    /\ swap_data = NotDecoding
    /\ scan_args = NoScanArgs
    /\ events = <<>>
    /\ rpc_log = <<>>
    /\ swap_events = <<>>
    /\ trades = <<>>
    /\ wallets = <<>>
    /\ row_origin = <<>>
    /\ db_faults = {}
    /\ last_op = Constructed
    /\ run = NoRun

\* One call per behaviour: the function keeps no state between calls.
NextScan ==
    /\ rpc_log = <<>>
    /\ \E from_block \in BlockNumbers, to_block \in BlockNumbers, limit \in Limits :
            FetchSwapEvents(from_block, to_block, limit)

SpecScan == InitScan /\ [][NextScan]_vars

\* The database as init_database leaves it, before an endpoint that does
\* not change.
Init ==
    /\ \E sc \in Scenarios :
          /\ chain = sc.chain
          /\ faults = sc.faults
          /\ latest_block = sc.latest_block
          /\ db_faults = sc.db_faults
    /\ max_retries = DefaultMaxRetries
    /\ delay = 1
    /\ func_fails = 0
    /\ func_error = "timeout"
    /\ attempt = 0
    /\ calls = 0
    /\ sleeps = <<>>
    /\ status = "idle"
    /\ result = None
    /\ event = NoEvent
    /\ swap_data = NotDecoding
    /\ scan_args = NoScanArgs
    /\ events = <<>>
    /\ rpc_log = <<>>
    /\ swap_events = <<>>
    /\ trades = <<>>
    /\ wallets = <<>>
    /\ row_origin = <<>>
    /\ last_op = Constructed
    /\ run = NoRun

Next ==
    \/ \E p \in PipelineArgs, none_as \in ToBlockNoneOutcomes :
            RunFullPipeline(p[1], p[2], none_as)
    \/ \E batch \in Batches : SaveTradesToDb(batch)
    \/ UpdateWalletStats

Spec == Init /\ [][Next]_vars

=============================================================================
